---- MODULE Spec2Model ----
(***************************************************************************)
(* Lead fraud scoring and batch refund aggregation                         *)
(* (fraud_scorer_sample.py, fraud_scorer_with_db.py).                      *)
(*                                                                         *)
(* A Python str is a sequence of one-character strings, so that the        *)
(* string operations of the code (regular expressions, lower, strip,       *)
(* split, join, substring search, f-string concatenation) are computed     *)
(* character by character.  A lead is a Python dict: a function whose      *)
(* domain is a subset of {"name", "email", "phone"}.                       *)
(***************************************************************************)
EXTENDS Integers, Sequences, FiniteSets, TLC

VARIABLES seen_phones, seen_emails, seen_hashes, pc, results, leads_df,
          refund, calls, nbatches, batch_data, self_db, db, save, callers

vars == <<seen_phones, seen_emails, seen_hashes, pc, results, leads_df,
          refund, calls, nbatches, batch_data, self_db, db, save, callers>>

\* what the database client of a scorer holds, and the database itself
dbvars == <<self_db, db, save, callers>>

(***************************************************************************)
(* Bounds of the model.                                                    *)
(***************************************************************************)
MaxCalls == 4
MaxBatches == 2
MaxScoreCalls == 3
MaxBatchSize == 20

(***************************************************************************)
(* Characters and string helpers.                                          *)
(***************************************************************************)
LowerLetters == {"a", "b", "c", "d", "e", "f", "g", "h", "i", "j", "k", "l", "m", "n", "o", "p", "q", "r", "s", "t", "u", "v", "w", "x", "y", "z"}

UpperLetters == {"A", "B", "C", "D", "E", "F", "G", "H", "I", "J", "K", "L", "M", "N", "O", "P", "Q", "R", "S", "T", "U", "V", "W", "X", "Y", "Z"}

Digits == {"0", "1", "2", "3", "4", "5", "6", "7", "8", "9"}

Letters == LowerLetters \cup UpperLetters

\* str.lower() on one character
ToLower == ("A" :> "a") @@ ("B" :> "b") @@ ("C" :> "c") @@ ("D" :> "d") @@ ("E" :> "e") @@ ("F" :> "f") @@ ("G" :> "g") @@ ("H" :> "h") @@ ("I" :> "i") @@ ("J" :> "j") @@ ("K" :> "k") @@ ("L" :> "l") @@ ("M" :> "m") @@ ("N" :> "n") @@ ("O" :> "o") @@ ("P" :> "p") @@ ("Q" :> "q") @@ ("R" :> "r") @@ ("S" :> "s") @@ ("T" :> "t") @@ ("U" :> "u") @@ ("V" :> "v") @@ ("W" :> "w") @@ ("X" :> "x") @@ ("Y" :> "y") @@ ("Z" :> "z")

\* str.lower()
Lower(s) == [i \in 1..Len(s) |-> IF s[i] \in DOMAIN ToLower THEN ToLower[s[i]] ELSE s[i]]

\* characters str.strip() removes (those of the model's alphabet)
Whitespace == {" "}

\* str.strip()
Strip(s) ==
  LET keep == {i \in 1..Len(s) : s[i] \notin Whitespace}
      lo == CHOOSE i \in keep : \A j \in keep : i <= j
      hi == CHOOSE i \in keep : \A j \in keep : i >= j
  IN  IF keep = {} THEN <<>> ELSE SubSeq(s, lo, hi)

\* needle in hay (Python's substring test)
Contains(hay, needle) ==
  \E i \in 1..(Len(hay) - Len(needle) + 1) :
     \A j \in 1..Len(needle) : hay[i + j - 1] = needle[j]

\* sep.join(parts)
RECURSIVE Join(_, _)
Join(parts, sep) ==
  IF Len(parts) = 0 THEN <<>>
  ELSE IF Len(parts) = 1 THEN parts[1]
  ELSE parts[1] \o sep \o Join(Tail(parts), sep)

\* Python truthiness of a str: the empty string is falsy
Truthy(s) == Len(s) > 0

\* lead.get(key, '')
Get(lead, key) == IF key \in DOMAIN lead THEN lead[key] ELSE <<>>

(***************************************************************************)
(* SimpleFraudScorer.__init__: the fixed sets.                             *)
(***************************************************************************)
disposable_domains ==
  { <<"g", "u", "e", "r", "r", "i", "l", "l", "a", "m", "a", "i", "l", ".", "c", "o", "m">>,
    <<"t", "e", "m", "p", "-", "m", "a", "i", "l", ".", "o", "r", "g">>,
    <<"1", "0", "m", "i", "n", "u", "t", "e", "m", "a", "i", "l", ".", "c", "o", "m">>,
    <<"m", "a", "i", "l", "i", "n", "a", "t", "o", "r", ".", "c", "o", "m">>,
    <<"t", "h", "r", "o", "w", "a", "w", "a", "y", ".", "e", "m", "a", "i", "l">>,
    <<"t", "e", "m", "p", "m", "a", "i", "l", ".", "c", "o", "m">>,
    <<"g", "e", "t", "n", "a", "d", "a", ".", "c", "o", "m">>,
    <<"m", "a", "i", "l", "d", "r", "o", "p", ".", "c", "c">>,
    <<"y", "o", "p", "m", "a", "i", "l", ".", "c", "o", "m">>,
    <<"f", "a", "k", "e", "i", "n", "b", "o", "x", ".", "c", "o", "m">>,
    <<"e", "m", "a", "i", "l", "o", "n", "d", "e", "c", "k", ".", "c", "o", "m">>,
    <<"t", "h", "r", "o", "w", "a", "w", "a", "y", "m", "a", "i", "l", ".", "c", "o", "m">>,
    <<"t", "r", "a", "s", "h", "m", "a", "i", "l", ".", "c", "o", "m">>,
    <<"s", "h", "a", "r", "k", "l", "a", "s", "e", "r", "s", ".", "c", "o", "m">>,
    <<"s", "p", "a", "m", "4", ".", "m", "e">>,
    <<"t", "e", "m", "p", "r", ".", "e", "m", "a", "i", "l">> }

gibberish_patterns ==
  { <<"a", "s", "d", "f", "g", "h">>,
    <<"q", "w", "e", "r", "t", "y">>,
    <<"z", "x", "c", "v", "b", "n">>,
    <<"t", "e", "s", "t", " ", "t", "e", "s", "t">>,
    <<"t", "e", "s", "t">>,
    <<"f", "a", "k", "e">>,
    <<"x", "x", "x">>,
    <<"a", "a", "a">>,
    <<"z", "z", "z">>,
    <<"n", "n", "n">>,
    <<"1", "1", "1">>,
    <<"1", "2", "3">>,
    <<"a", "b", "c">> }

(***************************************************************************)
(* Rule predicates.                                                        *)
(***************************************************************************)
\* re.sub(r'\D', '', str(phone))
DigitsOf(s) == SelectSeq(s, LAMBDA c : c \in Digits)

validate_phone_format(phone) ==
  IF ~Truthy(phone) THEN FALSE
  ELSE LET digits == DigitsOf(phone)
       IN  Len(digits) = 10 \/ Len(digits) = 11

\* [a-zA-Z0-9._%+-]
EmailLocalChars == Letters \cup Digits \cup {".", "_", "%", "+", "-"}

\* [a-zA-Z0-9.-]
EmailDomainChars == Letters \cup Digits \cup {".", "-"}

\* re.match(r'^[a-zA-Z0-9._%+-]+@[a-zA-Z0-9.-]+\.[a-zA-Z]{2,}$', s):
\* i is the position of '@', j the position of the '.' before the last label
EmailPatternMatches(s) ==
  \E i \in 2..Len(s) : \E j \in (i + 2)..(Len(s) - 2) :
     /\ s[i] = "@"
     /\ s[j] = "."
     /\ \A k \in 1..(i - 1) : s[k] \in EmailLocalChars
     /\ \A k \in (i + 1)..(j - 1) : s[k] \in EmailDomainChars
     /\ \A k \in (j + 1)..Len(s) : s[k] \in Letters

validate_email_format(email) ==
  IF ~Truthy(email) THEN FALSE
  ELSE EmailPatternMatches(email)

\* str(email).split('@')[-1]
AfterLastAt(s) ==
  LET ats == {i \in 1..Len(s) : s[i] = "@"}
      last == CHOOSE i \in ats : \A j \in ats : i >= j
  IN  IF ats = {} THEN s ELSE SubSeq(s, last + 1, Len(s))

is_disposable_email(email) ==
  IF ~Truthy(email) THEN FALSE
  ELSE LET domain == Lower(AfterLastAt(email))
       IN  domain \in disposable_domains

is_gibberish_name(name) ==
  IF ~Truthy(name) THEN TRUE
  ELSE LET name_lower == Strip(Lower(name))
       IN  IF name_lower \in gibberish_patterns THEN TRUE
           ELSE IF Len(name_lower) <= 1 THEN TRUE
           ELSE IF \E i \in 1..Len(name_lower) : name_lower[i] \in Digits THEN TRUE
           ELSE FALSE

(***************************************************************************)
(* Repetition tracker.  A defaultdict(int) is a function whose domain is   *)
(* the set of keys touched so far.                                         *)
(***************************************************************************)
EmptyDict == [k \in {} |-> 0]

\* d[k] += 1 on a defaultdict(int)
Incr(d, k) ==
  IF k \in DOMAIN d THEN [d EXCEPT ![k] = @ + 1]
  ELSE [x \in DOMAIN d \cup {k} |-> IF x = k THEN 1 ELSE d[x]]

\* f"{name}|{email}|{phone}"
hash_string(lead) ==
  Get(lead, "name") \o <<"|">> \o Get(lead, "email") \o <<"|">> \o Get(lead, "phone")

\* hashlib.md5(hash_string.encode()).hexdigest(): the digest is represented
\* by the string it digests (MD5 taken as collision-free on these inputs)
lead_hash(lead) == hash_string(lead)

find_exact_duplicate_last_only(lead, hashes) ==
  LET h == lead_hash(lead)
  IN  [duplicate |-> h \in hashes, seen_hashes |-> {h}]

find_exact_duplicate_unrecorded(lead, hashes) ==
  [ duplicate |-> lead_hash(lead) \in hashes,
    seen_hashes |-> hashes ]

find_exact_duplicate(lead, hashes) ==
  LET h == lead_hash(lead)
  IN  IF h \in hashes
      THEN [duplicate |-> TRUE, seen_hashes |-> hashes]
      ELSE [duplicate |-> FALSE, seen_hashes |-> hashes \cup {h}]

check_repeated_contact_skip_empty(lead, phones, emails) ==
  LET phone == Get(lead, "phone")
      email == Get(lead, "email")
      phones1 == IF Truthy(phone) THEN Incr(phones, phone) ELSE phones
      emails1 == IF Truthy(email) THEN Incr(emails, email) ELSE emails
  IN  [ seen_phones |-> phones1,
        seen_emails |-> emails1,
        repeated_phone |-> Truthy(phone) /\ phones1[phone] >= 3,
        repeated_email |-> Truthy(email) /\ emails1[email] >= 3 ]

check_repeated_contact_late(lead, phones, emails) ==
  LET phone == Get(lead, "phone")
      email == Get(lead, "email")
  IN  [ seen_phones |-> Incr(phones, phone),
        seen_emails |-> Incr(emails, email),
        repeated_phone |-> phone \in DOMAIN phones /\ phones[phone] >= 3,
        repeated_email |-> email \in DOMAIN emails /\ emails[email] >= 3 ]

check_repeated_contact(lead, phones, emails) ==
  LET phone == Get(lead, "phone")
      email == Get(lead, "email")
      phones1 == Incr(phones, phone)
      emails1 == Incr(emails, email)
  IN  [ seen_phones |-> phones1,
        seen_emails |-> emails1,
        repeated_phone |-> phones1[phone] >= 3,
        repeated_email |-> emails1[email] >= 3 ]

(***************************************************************************)
(* score_lead.                                                             *)
(***************************************************************************)
\* the characters of each reason string
ReasonText ==
  ("Missing phone number" :> <<"M", "i", "s", "s", "i", "n", "g", " ", "p", "h", "o", "n", "e", " ", "n", "u", "m", "b", "e", "r">>) @@
  ("Invalid phone format" :> <<"I", "n", "v", "a", "l", "i", "d", " ", "p", "h", "o", "n", "e", " ", "f", "o", "r", "m", "a", "t">>) @@
  ("Missing email address" :> <<"M", "i", "s", "s", "i", "n", "g", " ", "e", "m", "a", "i", "l", " ", "a", "d", "d", "r", "e", "s", "s">>) @@
  ("Invalid email format" :> <<"I", "n", "v", "a", "l", "i", "d", " ", "e", "m", "a", "i", "l", " ", "f", "o", "r", "m", "a", "t">>) @@
  ("Disposable email domain" :> <<"D", "i", "s", "p", "o", "s", "a", "b", "l", "e", " ", "e", "m", "a", "i", "l", " ", "d", "o", "m", "a", "i", "n">>) @@
  ("Phone number repeated 3+ times" :> <<"P", "h", "o", "n", "e", " ", "n", "u", "m", "b", "e", "r", " ", "r", "e", "p", "e", "a", "t", "e", "d", " ", "3", "+", " ", "t", "i", "m", "e", "s">>) @@
  ("Email repeated 3+ times" :> <<"E", "m", "a", "i", "l", " ", "r", "e", "p", "e", "a", "t", "e", "d", " ", "3", "+", " ", "t", "i", "m", "e", "s">>) @@
  ("Exact duplicate detected" :> <<"E", "x", "a", "c", "t", " ", "d", "u", "p", "l", "i", "c", "a", "t", "e", " ", "d", "e", "t", "e", "c", "t", "e", "d">>) @@
  ("Invalid or gibberish name" :> <<"I", "n", "v", "a", "l", "i", "d", " ", "o", "r", " ", "g", "i", "b", "b", "e", "r", "i", "s", "h", " ", "n", "a", "m", "e">>) @@
  ("Missing critical fields" :> <<"M", "i", "s", "s", "i", "n", "g", " ", "c", "r", "i", "t", "i", "c", "a", "l", " ", "f", "i", "e", "l", "d", "s">>)

\* 'Missing' in ' '.join(reasons)
MissingInReasons(reasons) ==
  Contains(Join([i \in 1..Len(reasons) |-> ReasonText[reasons[i]]], <<" ">>),
           <<"M", "i", "s", "s", "i", "n", "g">>)

\* score, reasons and breakdown at the start of score_lead
InitialAcc ==
  [ score |-> 0,
    reasons |-> <<>>,
    breakdown |-> [contact |-> 0, duplicate |-> 0, geographic |-> 0,
                   timing |-> 0, quality |-> 0] ]

Award_subtotal(acc, points, category, reason) ==
  [ score |-> acc.score + acc.breakdown[category] + points,
    reasons |-> Append(acc.reasons, reason),
    breakdown |-> [acc.breakdown EXCEPT ![category] = @ + points] ]

\* score += points; breakdown[category] += points; reasons.append(reason)
Award(acc, points, category, reason) ==
  [ score |-> acc.score + points,
    reasons |-> Append(acc.reasons, reason),
    breakdown |-> [acc.breakdown EXCEPT ![category] = @ + points] ]

Cap_total_too(acc, category, cap) ==
  IF acc.breakdown[category] > cap
  THEN [acc EXCEPT !.breakdown[category] = cap,
                   !.score = @ - (acc.breakdown[category] - cap)]
  ELSE acc

Cap_uncapped(acc, category, cap) == acc

\* breakdown[category] = min(breakdown[category], cap)
Cap(acc, category, cap) ==
  [acc EXCEPT !.breakdown[category] = IF @ < cap THEN @ ELSE cap]

PhoneValidation_skip_missing(acc, phone) ==
  IF Truthy(phone) /\ ~validate_phone_format(phone)
  THEN Award(acc, 10, "contact", "Invalid phone format")
  ELSE acc

PhoneValidation(acc, phone) ==
  IF ~Truthy(phone) THEN Award(acc, 10, "contact", "Missing phone number")
  ELSE IF ~validate_phone_format(phone)
       THEN Award(acc, 10, "contact", "Invalid phone format")
       ELSE acc

EmailValidation_independent(acc, email) ==
  LET a1 == IF ~Truthy(email)
            THEN Award(acc, 10, "contact", "Missing email address")
            ELSE acc
      a2 == IF ~validate_email_format(email)
            THEN Award(a1, 10, "contact", "Invalid email format")
            ELSE a1
  IN  IF is_disposable_email(email)
      THEN Award(a2, 10, "contact", "Disposable email domain")
      ELSE a2

EmailValidation_skip_missing(acc, email) ==
  IF ~Truthy(email) THEN acc
  ELSE IF ~validate_email_format(email)
       THEN Award(acc, 10, "contact", "Invalid email format")
       ELSE IF is_disposable_email(email)
            THEN Award(acc, 10, "contact", "Disposable email domain")
            ELSE acc

EmailValidation(acc, email) ==
  IF ~Truthy(email) THEN Award(acc, 10, "contact", "Missing email address")
  ELSE IF ~validate_email_format(email)
       THEN Award(acc, 10, "contact", "Invalid email format")
       ELSE IF is_disposable_email(email)
            THEN Award(acc, 10, "contact", "Disposable email domain")
            ELSE acc

RepeatedContacts_email_first(acc, repeated_phone, repeated_email) ==
  LET a1 == IF repeated_email
            THEN Award(acc, 10, "contact", "Email repeated 3+ times")
            ELSE acc
      a2 == IF repeated_phone
            THEN Award(a1, 10, "contact", "Phone number repeated 3+ times")
            ELSE a1
  IN  Cap(a2, "contact", 40)

RepeatedContacts_either(acc, repeated_phone, repeated_email) ==
  Cap(IF repeated_phone \/ repeated_email
        THEN Award(acc, 10, "contact",
                   IF repeated_phone THEN "Phone number repeated 3+ times"
                                     ELSE "Email repeated 3+ times")
        ELSE acc,
      "contact", 40)

RepeatedContacts(acc, repeated_phone, repeated_email) ==
  LET a1 == IF repeated_phone
            THEN Award(acc, 10, "contact", "Phone number repeated 3+ times")
            ELSE acc
      a2 == IF repeated_email
            THEN Award(a1, 10, "contact", "Email repeated 3+ times")
            ELSE a1
  IN  Cap(a2, "contact", 40)

DuplicateDetection_ten(acc, duplicate) ==
  LET a1 == IF duplicate
            THEN Award(acc, 10, "duplicate", "Exact duplicate detected")
            ELSE acc
  IN  Cap(a1, "duplicate", 25)

DuplicateDetection(acc, duplicate) ==
  LET a1 == IF duplicate
            THEN Award(acc, 15, "duplicate", "Exact duplicate detected")
            ELSE acc
  IN  Cap(a1, "duplicate", 25)

NameQuality_present_only(acc, name) ==
  IF Truthy(name) /\ is_gibberish_name(name)
  THEN Award(acc, 10, "quality", "Invalid or gibberish name")
  ELSE acc

NameQuality(acc, name) ==
  IF ~Truthy(name) \/ is_gibberish_name(name)
  THEN Award(acc, 10, "quality", "Invalid or gibberish name")
  ELSE acc

MissingCriticalFields_no_cap(acc, name, email, phone) ==
  IF ~Truthy(name) \/ ~Truthy(email) \/ ~Truthy(phone)
  THEN IF ~MissingInReasons(acc.reasons)
       THEN Award(acc, 10, "quality", "Missing critical fields")
       ELSE acc
  ELSE acc

MissingCriticalFields_unsuppressed(acc, name, email, phone) ==
  LET a1 == IF ~Truthy(name) \/ ~Truthy(email) \/ ~Truthy(phone)
            THEN Award(acc, 10, "quality", "Missing critical fields")
            ELSE acc
  IN  Cap(a1, "quality", 10)

MissingCriticalFields_always(acc, name, email, phone) ==
  LET a1 == IF ~MissingInReasons(acc.reasons)
            THEN Award(acc, 10, "quality", "Missing critical fields")
            ELSE acc
  IN  Cap(a1, "quality", 10)

MissingCriticalFields(acc, name, email, phone) ==
  LET a1 == IF ~Truthy(name) \/ ~Truthy(email) \/ ~Truthy(phone)
            THEN IF ~MissingInReasons(acc.reasons)
                 THEN Award(acc, 10, "quality", "Missing critical fields")
                 ELSE acc
            ELSE acc
  IN  Cap(a1, "quality", 10)

Classify_shifted(score) ==
  IF score > 50 THEN [classification |-> "FRAUDULENT", is_fraudulent |-> TRUE]
  ELSE IF score > 25 THEN [classification |-> "SUSPICIOUS", is_fraudulent |-> FALSE]
  ELSE [classification |-> "VALID", is_fraudulent |-> FALSE]

Classify(score) ==
  IF score >= 50 THEN [classification |-> "FRAUDULENT", is_fraudulent |-> TRUE]
  ELSE IF score >= 25 THEN [classification |-> "SUSPICIOUS", is_fraudulent |-> FALSE]
  ELSE [classification |-> "VALID", is_fraudulent |-> FALSE]

\* score_lead(lead) on the tracker (phones, emails, hashes): the returned
\* dict, the tracker it leaves, and what the two tracker calls returned
score_lead(lead, phones, emails, hashes) ==
  LET phone == Get(lead, "phone")
      a1 == PhoneValidation(InitialAcc, phone)
      email == Get(lead, "email")
      a2 == EmailValidation(a1, email)
      rc == check_repeated_contact(lead, phones, emails)
      a3 == RepeatedContacts(a2, rc.repeated_phone, rc.repeated_email)
      fd == find_exact_duplicate(lead, hashes)
      a4 == DuplicateDetection(a3, fd.duplicate)
      name == Get(lead, "name")
      a5 == NameQuality(a4, name)
      a6 == MissingCriticalFields(a5, name, email, phone)
      cl == Classify(a6.score)
  IN  [ result |-> [ fraud_score |-> a6.score,
                     classification |-> cl.classification,
                     is_fraudulent |-> cl.is_fraudulent,
                     reasons |-> a6.reasons,
                     breakdown |-> a6.breakdown ],
        seen_phones |-> rc.seen_phones,
        seen_emails |-> rc.seen_emails,
        seen_hashes |-> fd.seen_hashes,
        repeated_phone |-> rc.repeated_phone,
        repeated_email |-> rc.repeated_email,
        duplicate |-> fd.duplicate ]

(***************************************************************************)
(* calculate_batch_refund.  Its argument is the is_fraudulent column of    *)
(* leads_df.  A percentage is the exact fraction num / den; the float      *)
(* (fraudulent_leads / total_leads) * 100 falls in the same tier as the    *)
(* exact fraction for every batch size up to 3000.                         *)
(***************************************************************************)
Pct(num, den) == [num |-> num, den |-> den]

\* p >= n, for a fraction p and an integer n
PctGeq(p, n) == p.num >= n * p.den

\* len(leads_df[leads_df['is_fraudulent'] == True])
CountFraudulent_unfiltered(column) == Len(column)

CountFraudulent(column) == Cardinality({i \in 1..Len(column) : column[i]})

RefundTier_valid_share(fraud_percentage) ==
  IF PctGeq(fraud_percentage, 25)
  THEN [refund_type |-> "FULL REFUND", refund_percentage |-> Pct(100, 1)]
  ELSE IF PctGeq(fraud_percentage, 15)
       THEN [refund_type |-> "PARTIAL REFUND",
             refund_percentage |-> Pct(100 * fraud_percentage.den - fraud_percentage.num,
                                       fraud_percentage.den)]
       ELSE [refund_type |-> "NO REFUND", refund_percentage |-> Pct(0, 1)]

RefundTier_exclusive(fraud_percentage) ==
  IF fraud_percentage.num > 25 * fraud_percentage.den
  THEN [refund_type |-> "FULL REFUND", refund_percentage |-> Pct(100, 1)]
  ELSE IF fraud_percentage.num > 15 * fraud_percentage.den
       THEN [refund_type |-> "PARTIAL REFUND", refund_percentage |-> fraud_percentage]
       ELSE [refund_type |-> "NO REFUND", refund_percentage |-> Pct(0, 1)]

RefundTier(fraud_percentage) ==
  IF PctGeq(fraud_percentage, 25)
  THEN [refund_type |-> "FULL REFUND", refund_percentage |-> Pct(100, 1)]
  ELSE IF PctGeq(fraud_percentage, 15)
       THEN [refund_type |-> "PARTIAL REFUND", refund_percentage |-> fraud_percentage]
       ELSE [refund_type |-> "NO REFUND", refund_percentage |-> Pct(0, 1)]

\* the outcome of calculate_batch_refund: the returned dict, or the
\* exception that leaves it
calculate_batch_refund(column) ==
  LET total_leads == Len(column)
      fraudulent_leads == CountFraudulent(column)
  IN  IF total_leads = 0
      THEN [ raised |-> "ZeroDivisionError",
             message |-> "division by zero",
             total_leads |-> 0 ]
      ELSE LET fraud_percentage == Pct(100 * fraudulent_leads, total_leads)
               tier == RefundTier(fraud_percentage)
           IN  [ raised |-> "none",
                 refund_type |-> tier.refund_type,
                 refund_percentage |-> tier.refund_percentage,
                 fraud_percentage |-> fraud_percentage,
                 fraudulent_leads |-> fraudulent_leads,
                 valid_leads |-> total_leads - fraudulent_leads,
                 total_leads |-> total_leads ]

(***************************************************************************)
(* _generate_fraud_indicators: the points of a reason.                     *)
(***************************************************************************)
points_map ==
  [reason \in DOMAIN ReasonText |->
     IF reason = "Exact duplicate detected" THEN 15 ELSE 10]

\* points_map.get(reason, 10)
points_per_lead(reason) ==
  IF reason \in DOMAIN points_map THEN points_map[reason] ELSE 10

(***************************************************************************)
(* Inputs.  A field of a lead is absent (no key) or a string.              *)
(***************************************************************************)
\* the dict with the keys whose option set is not empty; an option set is
\* {} (key absent) or {s} (key present with the string s)
MkLead(name, email, phone) ==
  LET opt == [k \in {"name", "email", "phone"} |->
                IF k = "name" THEN name ELSE IF k = "email" THEN email ELSE phone]
  IN  [k \in {x \in {"name", "email", "phone"} : opt[x] # {}} |->
         CHOOSE s \in opt[k] : TRUE]

Absent == {}

Present(s) == {s}

Phone10 == <<"5", "5", "5", "1", "2", "3", "4", "5", "6", "7">>

PhonePunct == <<"(", "5", "5", "5", ")", " ", "1", "2", "3", "-", "4", "5", "6", "7">>

Phone11 == <<"1", "5", "5", "5", "1", "2", "3", "4", "5", "6", "7">>

PhoneShort == <<"1", "2", "3", "4", "5">>

EmailGood == <<"a", "@", "b", ".", "c", "o">>

EmailNoTld == <<"a", "@", "b">>

EmailShortTld == <<"a", "@", "b", ".", "c">>

EmailPipe == <<"x", "|", "a", "@", "b", ".", "c", "o">>

EmailDisposable == <<"x", "@", "y", "o", "p", "m", "a", "i", "l", ".", "c", "o", "m">>

EmailDisposableUpper == <<"x", "@", "Y", "o", "p", "M", "a", "i", "l", ".", "c", "o", "m">>

NameGood == <<"A", "l", " ", "R", "o", "e">>

NameOther == <<"B", "o", " ", "L", "e", "e">>

NameShort == <<"A", "l">>

NamePipe == <<"A", "l", "|", "x">>

NameTest == <<"t", "e", "s", "t">>

NameTestPadded == <<" ", "T", "e", "s", "t", " ">>

NameOneChar == <<"X">>

NameWithDigit == <<"R", "2", "D", "2">>

NameSpaces == <<" ", " ">>

PhoneValues == {<<>>, Phone10, PhonePunct, Phone11, PhoneShort}

EmailValues == {<<>>, EmailGood, EmailNoTld, EmailShortTld, EmailPipe,
                EmailDisposable, EmailDisposableUpper}

NameValues == {<<>>, NameGood, NameOther, NameShort, NamePipe, NameTest,
               NameTestPadded, NameOneChar, NameWithDigit, NameSpaces}

Options(values) == {Absent} \cup {Present(s) : s \in values}

\* every combination of the field values above
WideLeads ==
  {MkLead(n, e, p) : n \in Options(NameValues), e \in Options(EmailValues),
                     p \in Options(PhoneValues)}

LeadClean == MkLead(Present(NameGood), Present(EmailGood), Present(Phone10))

LeadCleanOtherName == MkLead(Present(NameOther), Present(EmailGood), Present(Phone10))

LeadEmpty == MkLead(Absent, Absent, Absent)

LeadPipeName == MkLead(Present(NamePipe), Present(EmailGood), Present(Phone10))

LeadPipeEmail == MkLead(Present(NameShort), Present(EmailPipe), Present(Phone10))

LeadBad == MkLead(Present(NameTest), Present(EmailDisposable), Present(PhoneShort))

\* the leads of the batches of Spec
Leads == {LeadClean, LeadCleanOtherName, LeadEmpty, LeadPipeName,
          LeadPipeEmail, LeadBad}

\* a column of n flags of which k are True: the True ones first, or last
Column(n, k, front) ==
  [i \in 1..n |-> IF front THEN i <= k ELSE i > n - k]

Columns ==
  UNION {{Column(n, k, front) : k \in 0..n, front \in BOOLEAN} : n \in 0..MaxBatchSize}

(***************************************************************************)
(* State.                                                                  *)
(*   seen_phones, seen_emails, seen_hashes: the scorer's tracker           *)
(*   pc: "idle", or "scoring" inside the loop of process_batch / main      *)
(*   results: the results list of the batch being scored                   *)
(*   leads_df: the is_fraudulent column handed to calculate_batch_refund   *)
(*   refund: the outcome of the last calculate_batch_refund                *)
(*   calls: every score_lead call of this scorer, in order, with its       *)
(*          lead, what the tracker returned, and the result                *)
(*   nbatches: batches started on this scorer                              *)
(*   batch_data: the outcome of the last process_batch: the returned dict  *)
(*          or the exception that left it                                  *)
(*   self_db: whether self.db is a client (TRUE) or None (FALSE)           *)
(*   db: the tables vendors, batches, leads, batch_fraud_indicators, and   *)
(*          the sizes of the inserts into leads, in order                  *)
(*   save: the locals of _save_to_database and of create_leads             *)
(*   callers: the callers of get_or_create_vendor and where they are       *)
(***************************************************************************)
NotCalled == [raised |-> "not called"]

EmptyDB ==
  [ vendors |-> <<>>, batches |-> <<>>, leads |-> <<>>, lead_inserts |-> <<>>,
    indicators |-> <<>> ]

NoSave ==
  [ vendor_id |-> 0, batch_id |-> 0, caller |-> "none", leads_data |-> <<>>,
    i |-> 0, all_results |-> <<>>, status |-> "not called" ]

NoCallers == [c \in {} |-> 0]

\* a scorer whose self.db is None: SimpleFraudScorer, save_to_db = False, or
\* a client that could not be built or connected
Init ==
  /\ seen_phones = EmptyDict
  /\ seen_emails = EmptyDict
  /\ seen_hashes = {}
  /\ pc = "idle"
  /\ results = <<>>
  /\ leads_df = <<>>
  /\ refund = NotCalled
  /\ calls = <<>>
  /\ nbatches = 0
  /\ batch_data = NotCalled
  /\ self_db = FALSE
  /\ db = EmptyDB
  /\ save = NoSave
  /\ callers = NoCallers

\* process_batch up to the loop: results = []
BeginBatch ==
  /\ pc = "idle"
  /\ nbatches < MaxBatches
  /\ pc' = "scoring"
  /\ results' = <<>>
  /\ nbatches' = nbatches + 1
  /\ UNCHANGED <<seen_phones, seen_emails, seen_hashes, leads_df, refund, calls,
                 batch_data, dbvars>>

\* one iteration of the loop: result = self.score_lead(lead); results.append(result)
ScoreLead(lead) ==
  /\ pc = "scoring"
  /\ LET out == score_lead(lead, seen_phones, seen_emails, seen_hashes)
     IN  /\ seen_phones' = out.seen_phones
         /\ seen_emails' = out.seen_emails
         /\ seen_hashes' = out.seen_hashes
         /\ results' = Append(results, out.result)
         /\ calls' = Append(calls, [ lead |-> lead,
                                     batch |-> nbatches,
                                     repeated_phone |-> out.repeated_phone,
                                     repeated_email |-> out.repeated_email,
                                     duplicate |-> out.duplicate,
                                     result |-> out.result ])
  /\ UNCHANGED <<pc, leads_df, refund, nbatches, batch_data, dbvars>>

\* the vendor_name argument of process_batch
vendor_name == "acme"

\* batch_data as process_batch prepares it from refund_info
BatchData(rs, refund_info) ==
  [ raised |-> "none",
    vendor_name |-> vendor_name,
    lead_count |-> Len(rs),
    fraudulent_count |-> refund_info.fraudulent_leads,
    valid_count |-> refund_info.valid_leads,
    fraud_percentage |-> refund_info.fraud_percentage,
    refund_status |-> refund_info.refund_type,
    refund_percentage |-> refund_info.refund_percentage ]

\* after the loop: the result columns, refund_info =
\* calculate_batch_refund(leads_df), batch_data, and either the return of
\* batch_data (self.db is None) or the call of _save_to_database
FinishBatch_resets_tracker ==
  /\ pc = "scoring"
  /\ leads_df' = [i \in 1..Len(results) |-> results[i].is_fraudulent]
  /\ refund' = calculate_batch_refund(leads_df')
  /\ batch_data' = IF refund'.raised # "none" THEN [raised |-> refund'.raised]
                   ELSE BatchData(results, refund')
  /\ pc' = IF self_db /\ refund'.raised = "none" THEN "save_vendor" ELSE "idle"
  /\ seen_phones' = EmptyDict
  /\ seen_emails' = EmptyDict
  /\ seen_hashes' = {}
  /\ UNCHANGED <<results, calls, nbatches, dbvars>>

FinishBatch ==
  /\ pc = "scoring"
  /\ LET column == [i \in 1..Len(results) |-> results[i].is_fraudulent]
         refund_info == calculate_batch_refund(column)
     IN  /\ leads_df' = column
         /\ refund' = refund_info
         /\ IF refund_info.raised # "none"
            THEN /\ batch_data' = [raised |-> refund_info.raised]
                 /\ pc' = "idle"
            ELSE /\ batch_data' = BatchData(results, refund_info)
                 /\ pc' = IF self_db THEN "save_vendor" ELSE "idle"
  /\ UNCHANGED <<seen_phones, seen_emails, seen_hashes, results, calls, nbatches,
                 dbvars>>

Next ==
  \/ BeginBatch
  \/ (Len(calls) < MaxCalls /\ \E lead \in Leads : ScoreLead(lead))
  \/ FinishBatch

Spec == Init /\ [][Next]_vars

(***************************************************************************)
(* SpecScore: one batch of up to MaxScoreCalls leads; any lead of          *)
(* WideLeads is scored after leads of Leads, and a lead outside Leads is   *)
(* the last one scored.                                                    *)
(***************************************************************************)
\* no lead outside Leads has been scored yet
OnlyLeadsSoFar == \A i \in 1..Len(calls) : calls[i].lead \in Leads

ScoreEarlier ==
  /\ OnlyLeadsSoFar
  /\ Len(calls) < MaxScoreCalls - 1
  /\ \E lead \in Leads : ScoreLead(lead)

ScoreLast ==
  /\ OnlyLeadsSoFar
  /\ Len(calls) < MaxScoreCalls
  /\ \E lead \in WideLeads : ScoreLead(lead)

NextScore ==
  \/ BeginBatch
  \/ ScoreEarlier
  \/ ScoreLast

SpecScore == Init /\ [][NextScore]_vars

(***************************************************************************)
(* SpecRefund: calculate_batch_refund applied to a column of flags.        *)
(***************************************************************************)
InitRefund ==
  /\ seen_phones = EmptyDict
  /\ seen_emails = EmptyDict
  /\ seen_hashes = {}
  /\ pc = "idle"
  /\ results = <<>>
  /\ leads_df \in Columns
  /\ refund = NotCalled
  /\ calls = <<>>
  /\ nbatches = 0
  /\ batch_data = NotCalled
  /\ self_db = FALSE
  /\ db = EmptyDB
  /\ save = NoSave
  /\ callers = NoCallers

CalculateBatchRefund ==
  /\ refund = NotCalled
  /\ refund' = calculate_batch_refund(leads_df)
  /\ UNCHANGED <<seen_phones, seen_emails, seen_hashes, pc, results, leads_df,
                 calls, nbatches, batch_data, dbvars>>

NextRefund == CalculateBatchRefund

SpecRefund == InitRefund /\ [][NextRefund]_vars

(***************************************************************************)
(* SpecOrder: one batch scored by a freshly constructed scorer, its leads  *)
(* drawn from OrderLeads in any order, then its refund.                    *)
(***************************************************************************)
MaxOrderLen == 3

LeadNoName == MkLead(Absent, Present(EmailGood), Present(PhoneShort))

LeadShortPhone == MkLead(Present(NameGood), Present(EmailGood), Present(PhoneShort))

OrderLeads == {LeadNoName, LeadShortPhone, LeadClean, LeadCleanOtherName,
               LeadPipeName, LeadPipeEmail}

\* the scoring loop over a whole batch: the list of results, in batch order
RECURSIVE ScoreRows(_, _, _, _)
ScoreRows(batch, phones, emails, hashes) ==
  IF batch = <<>> THEN <<>>
  ELSE LET s == score_lead(Head(batch), phones, emails, hashes)
       IN  <<s.result>> \o
           ScoreRows(Tail(batch), s.seen_phones, s.seen_emails, s.seen_hashes)

\* the results of a batch scored by a scorer straight after __init__
ScoreBatch(batch) == ScoreRows(batch, EmptyDict, EmptyDict, {})

BeginFirstBatch == nbatches = 0 /\ BeginBatch

ScoreOrdered ==
  /\ Len(calls) < MaxOrderLen
  /\ \E lead \in OrderLeads : ScoreLead(lead)

NextOrder == BeginFirstBatch \/ ScoreOrdered \/ FinishBatch

SpecOrder == Init /\ [][NextOrder]_vars

(***************************************************************************)
(* The database client.  A table is the sequence of its records in the     *)
(* order of insertion; an insert returns the records it inserted; the id   *)
(* of a record is its place in its table.                                  *)
(***************************************************************************)
chunk_size == 500

MaxInsert == 1001

MaxSaveCalls == 2

MaxCallers == 2

VendorNames == {"acme", "zenith", "apex"}

\* table('vendors').select('*').eq('vendor_name', name).execute().data
select_vendors(vendors, name) ==
  SelectSeq(vendors, LAMBDA v : v.vendor_name = name)

\* table('vendors').insert(vendor_data).execute(): the table and result.data[0]
insert_vendor(vendors, name) ==
  LET v == [id |-> Len(vendors) + 1, vendor_name |-> name, vendor_status |-> "active"]
  IN  [vendors |-> Append(vendors, v), vendor |-> v]

\* get_or_create_vendor run without interruption
get_or_create_vendor(vendors, name) ==
  LET data == select_vendors(vendors, name)
  IN  IF data # <<>> THEN [vendors |-> vendors, vendor |-> data[1]]
      ELSE insert_vendor(vendors, name)

\* leads_data[i:i + chunk_size], i counted from 0
Chunk_inclusive(leads_data, i) ==
  SubSeq(leads_data, i + 1,
         IF i + chunk_size + 1 < Len(leads_data) THEN i + chunk_size + 1
         ELSE Len(leads_data))

Chunk(leads_data, i) ==
  SubSeq(leads_data, i + 1,
         IF i + chunk_size < Len(leads_data) THEN i + chunk_size
         ELSE Len(leads_data))

\* s.split(sep)
RECURSIVE Split(_, _)
Split(s, sep) ==
  LET hits == {k \in 1..(Len(s) - Len(sep) + 1) :
                 \A j \in 1..Len(sep) : s[k + j - 1] = sep[j]}
  IN  IF hits = {} THEN <<s>>
      ELSE LET k == CHOOSE h \in hits : \A g \in hits : h <= g
           IN  <<SubSeq(s, 1, k - 1)>> \o Split(SubSeq(s, k + Len(sep), Len(s)), sep)

\* the fraud_reasons column: ', '.join(r['reasons']) if r['reasons'] else ''
fraud_reasons(r) ==
  Join([k \in 1..Len(r.reasons) |-> ReasonText[r.reasons[k]]], <<",", " ">>)

\* all_reasons of _generate_fraud_indicators
RECURSIVE all_reasons(_)
all_reasons(rs) ==
  IF rs = <<>> THEN <<>>
  ELSE LET reasons_str == fraud_reasons(Head(rs))
       IN  (IF Truthy(reasons_str) THEN Split(reasons_str, <<",", " ">>) ELSE <<>>)
             \o all_reasons(Tail(rs))

category_map ==
  [reason \in DOMAIN ReasonText |->
     IF reason = "Exact duplicate detected" THEN "duplicate"
     ELSE IF reason \in {"Invalid or gibberish name", "Missing critical fields"}
          THEN "quality"
          ELSE "contact"]

\* the key of points_map and category_map a reason text is, if any
ReasonKey(text) ==
  IF \E n \in DOMAIN ReasonText : ReasonText[n] = text
  THEN CHOOSE n \in DOMAIN ReasonText : ReasonText[n] = text
  ELSE "(none)"

\* the indicators of a batch, one for every reason that occurs
generate_fraud_indicators(rs) ==
  LET all == all_reasons(rs)
      texts == {all[k] : k \in 1..Len(all)}
  IN  { LET count == Cardinality({k \in 1..Len(all) : all[k] = text})
            key == ReasonKey(text)
        IN  [ indicator_name |-> text,
              indicator_category |-> IF key \in DOMAIN category_map
                                     THEN category_map[key] ELSE "quality",
              affected_lead_count |-> count,
              percentage |-> Pct(100 * count, Len(rs)),
              points_per_lead |-> points_per_lead(key),
              total_points |-> count * points_per_lead(key) ]
        : text \in texts }

\* leads_to_insert of _save_to_database: one record for every row of the batch
leads_to_insert(batch_id) ==
  [ row \in 1..Len(results) |->
      LET lead == calls[Len(calls) - Len(results) + row].lead
          r == results[row]
      IN  [ batch_id |-> batch_id,
            row |-> row,
            lead_phone |-> Get(lead, "phone"),
            fraud_score |-> r.fraud_score,
            classification |-> r.classification,
            is_fraudulent |-> r.is_fraudulent,
            contact_score |-> r.breakdown.contact,
            duplicate_score |-> r.breakdown.duplicate,
            quality_score |-> r.breakdown.quality,
            fraud_reasons |-> fraud_reasons(r) ] ]

scoring == <<seen_phones, seen_emails, seen_hashes, results, leads_df, refund,
             calls, nbatches>>

\* step 1 of _save_to_database
SaveVendor ==
  /\ pc = "save_vendor"
  /\ LET out == get_or_create_vendor(db.vendors, batch_data.vendor_name)
     IN  /\ db' = [db EXCEPT !.vendors = out.vendors]
         /\ save' = [NoSave EXCEPT !.vendor_id = out.vendor.id,
                                   !.caller = "_save_to_database",
                                   !.status = "running"]
  /\ pc' = "save_batch"
  /\ UNCHANGED <<scoring, batch_data, self_db, callers>>

\* step 2: create_batch, batch_data['batch_id'] = batch_id, and step 3 up to
\* the call of create_leads
SaveBatch ==
  /\ pc = "save_batch"
  /\ LET batch_id == Len(db.batches) + 1
         batch == [ id |-> batch_id,
                    vendor_id |-> save.vendor_id,
                    lead_count |-> batch_data.lead_count,
                    fraudulent_count |-> batch_data.fraudulent_count,
                    valid_count |-> batch_data.valid_count,
                    fraud_percentage |-> batch_data.fraud_percentage,
                    refund_status |-> batch_data.refund_status,
                    refund_percentage |-> batch_data.refund_percentage ]
     IN  /\ db' = [db EXCEPT !.batches = Append(@, batch)]
         /\ batch_data' = ("batch_id" :> batch_id) @@ batch_data
         /\ save' = [save EXCEPT !.batch_id = batch_id,
                                 !.leads_data = leads_to_insert(batch_id),
                                 !.i = 0,
                                 !.all_results = <<>>]
  /\ pc' = "create_leads"
  /\ UNCHANGED <<scoring, self_db, callers>>

\* one iteration of the loop of create_leads
InsertChunk ==
  /\ pc = "create_leads"
  /\ save.i < Len(save.leads_data)
  /\ LET chunk == Chunk(save.leads_data, save.i)
     IN  /\ db' = [db EXCEPT !.leads = @ \o chunk,
                             !.lead_inserts = Append(@, Len(chunk))]
         /\ save' = [save EXCEPT !.all_results = @ \o chunk,
                                 !.i = @ + chunk_size]
  /\ UNCHANGED <<scoring, pc, batch_data, self_db, callers>>

\* the end of the loop: return all_results
CreateLeadsReturn ==
  /\ pc = "create_leads"
  /\ save.i >= Len(save.leads_data)
  /\ save' = [save EXCEPT !.status = "returned"]
  /\ pc' = IF save.caller = "_save_to_database" THEN "save_indicators" ELSE "idle"
  /\ UNCHANGED <<scoring, batch_data, self_db, db, callers>>

\* step 4, batch_data['vendor_id'] = vendor_id, return batch_data
SaveIndicators ==
  /\ pc = "save_indicators"
  /\ LET indicators == generate_fraud_indicators(results)
     IN  db' = IF indicators # {}
               THEN [db EXCEPT !.indicators =
                       Append(@, [batch_id |-> save.batch_id,
                                  indicators |-> indicators])]
               ELSE db
  /\ batch_data' = ("vendor_id" :> save.vendor_id) @@ batch_data
  /\ save' = [save EXCEPT !.status = "saved"]
  /\ pc' = "idle"
  /\ UNCHANGED <<scoring, self_db, callers>>

\* except Exception as e: ...; return batch_data
save_except_reraise(data) == [raised |-> "Exception"]

save_except(data) == data

\* the database call of the current step raises
SaveRaises ==
  /\ save.caller = "_save_to_database"
  /\ \/ pc \in {"save_vendor", "save_batch"}
     \/ pc = "create_leads" /\ save.i < Len(save.leads_data)
     \/ pc = "save_indicators" /\ generate_fraud_indicators(results) # {}
  /\ batch_data' = save_except(batch_data)
  /\ save' = [save EXCEPT !.status = "raised"]
  /\ pc' = "idle"
  /\ UNCHANGED <<scoring, self_db, db, callers>>

(***************************************************************************)
(* SpecSave: batches of a FraudScorerWithDB, with or without a client,     *)
(* every database call of which succeeds or raises.                        *)
(***************************************************************************)
SaveLeads == {LeadClean, LeadEmpty, LeadBad}

InitSave ==
  /\ seen_phones = EmptyDict
  /\ seen_emails = EmptyDict
  /\ seen_hashes = {}
  /\ pc = "idle"
  /\ results = <<>>
  /\ leads_df = <<>>
  /\ refund = NotCalled
  /\ calls = <<>>
  /\ nbatches = 0
  /\ batch_data = NotCalled
  /\ self_db \in BOOLEAN
  /\ db = EmptyDB
  /\ save = [NoSave EXCEPT !.caller = "_save_to_database"]
  /\ callers = NoCallers

ScoreSaved ==
  /\ Len(calls) < MaxSaveCalls
  /\ \E lead \in SaveLeads : ScoreLead(lead)

NextSave ==
  \/ BeginBatch
  \/ ScoreSaved
  \/ FinishBatch
  \/ SaveVendor
  \/ SaveBatch
  \/ InsertChunk
  \/ CreateLeadsReturn
  \/ SaveIndicators
  \/ SaveRaises

SpecSave == InitSave /\ [][NextSave]_vars

(***************************************************************************)
(* SpecLeads: one call of create_leads on a list of up to MaxInsert leads, *)
(* every insert of which succeeds or raises.                               *)
(***************************************************************************)
InitLeads ==
  /\ seen_phones = EmptyDict
  /\ seen_emails = EmptyDict
  /\ seen_hashes = {}
  /\ pc = "create_leads"
  /\ results = <<>>
  /\ leads_df = <<>>
  /\ refund = NotCalled
  /\ calls = <<>>
  /\ nbatches = 0
  /\ batch_data = NotCalled
  /\ self_db = TRUE
  /\ db = EmptyDB
  /\ \E n \in 0..MaxInsert :
        save = [NoSave EXCEPT !.caller = "direct",
                              !.leads_data = [k \in 1..n |-> k],
                              !.status = "running"]
  /\ callers = NoCallers

\* an insert of create_leads raises, and create_leads with it
InsertRaises ==
  /\ pc = "create_leads"
  /\ save.caller = "direct"
  /\ save.i < Len(save.leads_data)
  /\ save' = [save EXCEPT !.status = "raised"]
  /\ pc' = "idle"
  /\ UNCHANGED <<scoring, batch_data, self_db, db, callers>>

NextLeads == InsertChunk \/ CreateLeadsReturn \/ InsertRaises

SpecLeads == InitLeads /\ [][NextLeads]_vars

(***************************************************************************)
(* SpecVendor: MaxCallers callers of get_or_create_vendor on one database, *)
(* the select and the insert of the callers interleaved.                   *)
(***************************************************************************)
Callers == 1..MaxCallers

VendorTables ==
  {<<>>} \cup {insert_vendor(<<>>, name).vendors : name \in VendorNames}

InitVendor ==
  /\ seen_phones = EmptyDict
  /\ seen_emails = EmptyDict
  /\ seen_hashes = {}
  /\ pc = "idle"
  /\ results = <<>>
  /\ leads_df = <<>>
  /\ refund = NotCalled
  /\ calls = <<>>
  /\ nbatches = 0
  /\ batch_data = NotCalled
  /\ self_db = TRUE
  /\ \E vendors \in VendorTables : db = [EmptyDB EXCEPT !.vendors = vendors]
  /\ save = NoSave
  /\ callers \in [Callers -> {[pc |-> "select", vendor_name |-> name, vendor_id |-> 0]
                               : name \in VendorNames}]

\* result = ...select('*').eq('vendor_name', vendor_name).execute(), and the
\* return of result.data[0] if there is one
VendorSelect(c) ==
  /\ callers[c].pc = "select"
  /\ LET data == select_vendors(db.vendors, callers[c].vendor_name)
     IN  callers' = [callers EXCEPT ![c] =
                       IF data # <<>>
                       THEN [@ EXCEPT !.pc = "returned", !.vendor_id = data[1].id]
                       ELSE [@ EXCEPT !.pc = "insert"]]
  /\ UNCHANGED <<scoring, pc, batch_data, self_db, db, save>>

\* result = ...insert(vendor_data).execute(); return result.data[0]
VendorInsert(c) ==
  /\ callers[c].pc = "insert"
  /\ LET out == insert_vendor(db.vendors, callers[c].vendor_name)
     IN  /\ db' = [db EXCEPT !.vendors = out.vendors]
         /\ callers' = [callers EXCEPT ![c] =
                          [@ EXCEPT !.pc = "returned", !.vendor_id = out.vendor.id]]
  /\ UNCHANGED <<scoring, pc, batch_data, self_db, save>>

NextVendor ==
  \/ \E c \in Callers : VendorSelect(c)
  \/ \E c \in Callers : VendorInsert(c)

SpecVendor == InitVendor /\ [][NextVendor]_vars

(***************************************************************************)
(* Properties.                                                             *)
(***************************************************************************)
\* the three fields as score_lead reads them
Fields(lead) == <<Get(lead, "name"), Get(lead, "email"), Get(lead, "phone")>>

AllMissing(lead) ==
  ~Truthy(Get(lead, "phone")) /\ ~Truthy(Get(lead, "email")) /\ ~Truthy(Get(lead, "name"))

BreakdownSum(r) == r.breakdown.contact + r.breakdown.duplicate + r.breakdown.quality

\* C1: every score result is classified by its fraud_score: >= 50 is
\* FRAUDULENT with is_fraudulent true, 25..49 is SUSPICIOUS and below 25 is
\* VALID, both with is_fraudulent false.
C1_ClassifiedByTotal ==
  \A i \in 1..Len(calls) :
     LET r == calls[i].result
     IN  /\ r.fraud_score >= 50 =>
              r.classification = "FRAUDULENT" /\ r.is_fraudulent = TRUE
         /\ (r.fraud_score >= 25 /\ r.fraud_score < 50) =>
              r.classification = "SUSPICIOUS" /\ r.is_fraudulent = FALSE
         /\ r.fraud_score < 25 =>
              r.classification = "VALID" /\ r.is_fraudulent = FALSE
         /\ r.is_fraudulent = (r.classification = "FRAUDULENT")

\* a lead at 25 or more by the total, and so SUSPICIOUS, whose capped
\* breakdown values add up to less than 25
C1_Witness ==
  \E i \in 1..Len(calls) :
     /\ calls[i].result.fraud_score >= 25
     /\ calls[i].result.classification = "SUSPICIOUS"
     /\ BreakdownSum(calls[i].result) < 25

\* C2: on a non-empty batch of t leads with f fraudulent ones, 100 f / t >= 25
\* gives FULL REFUND at 100, 15 <= 100 f / t < 25 gives PARTIAL REFUND at
\* 100 f / t, and 100 f / t < 15 gives NO REFUND at 0.
C2_RefundTiers ==
  refund.raised = "none" =>
    LET t == Len(leads_df)
        f == Cardinality({i \in 1..Len(leads_df) : leads_df[i] = TRUE})
        p == refund.refund_percentage
    IN  /\ 100 * f >= 25 * t =>
             refund.refund_type = "FULL REFUND" /\ p.num = 100 * p.den
        /\ (100 * f >= 15 * t /\ 100 * f < 25 * t) =>
             refund.refund_type = "PARTIAL REFUND" /\ p.num * t = 100 * f * p.den
        /\ 100 * f < 15 * t =>
             refund.refund_type = "NO REFUND" /\ p.num = 0
        /\ (t = 10 /\ f = 3) => refund.refund_type = "FULL REFUND" /\ p.num = 100 * p.den
        /\ (t = 10 /\ f = 2) => refund.refund_type = "PARTIAL REFUND" /\ p.num = 20 * p.den
        /\ (t = 10 /\ f = 1) => refund.refund_type = "NO REFUND" /\ p.num = 0

\* the batch of 10 leads with 2 fraudulent ones was refunded pro rata
C2_Witness ==
  /\ refund.raised = "none"
  /\ Len(leads_df) = 10
  /\ Cardinality({i \in 1..Len(leads_df) : leads_df[i] = TRUE}) = 2
  /\ refund.refund_type = "PARTIAL REFUND"

\* C3: when the first three leads scored by a scorer are identical, the 1st
\* has no flag, the 2nd the duplicate flag only, the 3rd the duplicate flag
\* and both repeat flags.
C3_ThreeIdenticalLeads ==
  (/\ Len(calls) >= 3
   /\ Fields(calls[1].lead) = Fields(calls[2].lead)
   /\ Fields(calls[2].lead) = Fields(calls[3].lead)) =>
    /\ ~calls[1].duplicate /\ ~calls[1].repeated_phone /\ ~calls[1].repeated_email
    /\ calls[2].duplicate /\ ~calls[2].repeated_phone /\ ~calls[2].repeated_email
    /\ calls[3].duplicate /\ calls[3].repeated_phone /\ calls[3].repeated_email

\* three identical leads were scored in one batch, the third with all flags
C3_Witness ==
  /\ Len(calls) >= 3
  /\ Fields(calls[1].lead) = Fields(calls[2].lead)
  /\ Fields(calls[2].lead) = Fields(calls[3].lead)
  /\ calls[1].batch = calls[3].batch
  /\ calls[3].duplicate /\ calls[3].repeated_phone /\ calls[3].repeated_email
  /\ "Exact duplicate detected" \notin {calls[1].result.reasons[k] : k \in 1..Len(calls[1].result.reasons)}

\* C4: before the first lead of a batch is scored, the tracker is empty.
C4_BatchStartsWithEmptyTracker ==
  (pc = "scoring" /\ results = <<>>) =>
    /\ DOMAIN seen_phones = {}
    /\ DOMAIN seen_emails = {}
    /\ seen_hashes = {}

\* C5: aggregating a zero-length batch raises an error of its own, not the
\* ZeroDivisionError of the division.
C5_EmptyBatchRejected ==
  (refund # NotCalled /\ Len(leads_df) = 0) =>
    refund.raised \notin {"none", "ZeroDivisionError"}

\* C6: a lead is flagged as an exact duplicate iff a lead with the same
\* name, email and phone was scored before it on this scorer, and its
\* fingerprint is recorded after the call.
C6_DuplicateIffIdenticalEarlier ==
  \A i \in 1..Len(calls) :
     /\ calls[i].duplicate =
          (\E j \in 1..(i - 1) : Fields(calls[j].lead) = Fields(calls[i].lead))
     /\ lead_hash(calls[i].lead) \in seen_hashes

\* C7: a lead's phone is flagged as repeated iff it is at least the third
\* lead of this scorer with that phone, and likewise, independently, its email.
C7_ThirdOccurrenceOnwards ==
  \A i \in 1..Len(calls) :
     LET samePhone == {j \in 1..i : Get(calls[j].lead, "phone") = Get(calls[i].lead, "phone")}
         sameEmail == {j \in 1..i : Get(calls[j].lead, "email") = Get(calls[i].lead, "email")}
     IN  /\ calls[i].repeated_phone = (Cardinality(samePhone) >= 3)
         /\ calls[i].repeated_email = (Cardinality(sameEmail) >= 3)

\* four leads with one phone: the 3rd and the 4th are flagged for the phone,
\* and only the 4th for its email, which the 2nd lead does not carry
C7_Witness ==
  /\ Len(calls) = 4
  /\ \A i \in 1..4 : Get(calls[i].lead, "phone") = Get(calls[1].lead, "phone")
  /\ ~calls[1].repeated_phone /\ ~calls[2].repeated_phone
  /\ calls[3].repeated_phone /\ calls[4].repeated_phone
  /\ Get(calls[2].lead, "email") # Get(calls[1].lead, "email")
  /\ ~calls[3].repeated_email /\ calls[4].repeated_email

\* C8: a lead with a valid phone, a valid non-disposable email and a
\* non-gibberish name that raises no tracker flag scores 0, with no reason,
\* and is VALID.
C8_CleanLeadScoresZero ==
  \A i \in 1..Len(calls) :
     LET c == calls[i]
         phone == Get(c.lead, "phone")
         email == Get(c.lead, "email")
         name == Get(c.lead, "name")
     IN  (/\ Truthy(phone) /\ validate_phone_format(phone)
          /\ Truthy(email) /\ validate_email_format(email) /\ ~is_disposable_email(email)
          /\ Truthy(name) /\ ~is_gibberish_name(name)
          /\ ~c.duplicate /\ ~c.repeated_phone /\ ~c.repeated_email) =>
         /\ c.result.fraud_score = 0
         /\ c.result.reasons = <<>>
         /\ c.result.classification = "VALID"

\* a clean lead scored 0 after another lead with the same phone and email
C8_Witness ==
  \E i \in 2..Len(calls) :
     /\ calls[i].lead = MkLead(Present(NameShort), Present(EmailGood), Present(PhonePunct))
     /\ calls[i].result.fraud_score = 0
     /\ calls[i].result.classification = "VALID"
     /\ Get(calls[1].lead, "email") = EmailGood

\* C9 as claimed: a lead missing phone, email and name scores at least 40.
C9_AllMissingAtLeast40 ==
  \A i \in 1..Len(calls) :
     AllMissing(calls[i].lead) => calls[i].result.fraud_score >= 40

\* C9 as amended: a lead missing phone, email and name scores at least 30:
\* 10 for the phone, 10 for the email and 10 for the name, and never the 10 of
\* 'Missing critical fields'.
C9_AllMissingAtLeast30 ==
  \A i \in 1..Len(calls) :
     AllMissing(calls[i].lead) =>
       LET r == calls[i].result
           given == {r.reasons[k] : k \in 1..Len(r.reasons)}
       IN  /\ r.fraud_score >= 30
           /\ {"Missing phone number", "Missing email address",
               "Invalid or gibberish name"} \subseteq given
           /\ "Missing critical fields" \notin given

\* a lead with no field at all scored exactly 30 on a fresh tracker
C9_Witness ==
  /\ Len(calls) >= 1
  /\ AllMissing(calls[1].lead)
  /\ calls[1].result.fraud_score = 30

\* C10: a lead missing phone, email and name is SUSPICIOUS or FRAUDULENT.
C10_AllMissingNeverValid ==
  \A i \in 1..Len(calls) :
     AllMissing(calls[i].lead) =>
       calls[i].result.classification \in {"SUSPICIOUS", "FRAUDULENT"}

\* leads with no usable field were classified SUSPICIOUS, then FRAUDULENT
C10_Witness ==
  \E i, j \in 1..Len(calls) :
     /\ AllMissing(calls[i].lead) /\ calls[i].result.classification = "SUSPICIOUS"
     /\ AllMissing(calls[j].lead) /\ calls[j].result.classification = "FRAUDULENT"


\* C11: in every score result, breakdown.contact <= 40, breakdown.duplicate
\* <= 25 and breakdown.quality <= 10.
C11_BreakdownCaps ==
  \A i \in 1..Len(calls) :
     LET b == calls[i].result.breakdown
     IN  b.contact <= 40 /\ b.duplicate <= 25 /\ b.quality <= 10

\* a lead awarded 20 quality points (name and missing critical fields) whose
\* breakdown.quality is 10
C11_Witness ==
  \E i \in 1..Len(calls) :
     LET r == calls[i].result
         given == {r.reasons[k] : k \in 1..Len(r.reasons)}
     IN  /\ {"Invalid or gibberish name", "Missing critical fields"} \subseteq given
         /\ r.breakdown.quality = 10

\* C12: every fraud_score is an integer from 0 to 100.
C12_ScoreWithin0To100 ==
  \A i \in 1..Len(calls) : calls[i].result.fraud_score \in 0..100

\* a score of 65 was returned, with every contact award, the duplicate award
\* and the name award, by a scorer that had returned lower scores before
C12_Witness ==
  \E i, j \in 1..Len(calls) :
     /\ i < j
     /\ calls[i].result.fraud_score < 65
     /\ calls[j].result.fraud_score = 65
     /\ calls[j].result.breakdown.contact = 40
     /\ calls[j].result.breakdown.duplicate = 15


\* the leads scored so far, in call order, and their results
ScoredLeads == [i \in 1..Len(calls) |-> calls[i].lead]

ScoredResults == [i \in 1..Len(calls) |-> calls[i].result]

\* every ordering of a batch
Orderings(batch) ==
  {[i \in 1..Len(batch) |-> batch[p[i]]] : p \in Permutations(1..Len(batch))}

HasReason(r, reason) == \E k \in 1..Len(r.reasons) : r.reasons[k] = reason

\* the rows of a list of results that carry a reason
Flagged(rs, reason) == {i \in 1..Len(rs) : HasReason(rs[i], reason)}

OrderFlags == {"Exact duplicate detected", "Phone number repeated 3+ times",
               "Email repeated 3+ times"}

\* C13: for a batch and any permutation of it, each scored from a fresh
\* tracker, the number of leads flagged 'Exact duplicate detected', flagged
\* 'Phone number repeated 3+ times' and flagged 'Email repeated 3+ times'
\* is the same.
C13_FlagCountsOrderIndependent ==
  \A o \in Orderings(ScoredLeads) : \A reason \in OrderFlags :
     Cardinality(Flagged(ScoreBatch(o), reason))
       = Cardinality(Flagged(ScoredResults, reason))

\* a batch and an ordering of it in which other leads carry the flags
C13_Witness ==
  \E o \in Orderings(ScoredLeads) : \E reason \in OrderFlags :
     /\ Flagged(ScoredResults, reason) # {}
     /\ {Fields(o[i]) : i \in Flagged(ScoreBatch(o), reason)}
          # {Fields(ScoredLeads[i]) : i \in Flagged(ScoredResults, reason)}


\* the rows of a list of results classified FRAUDULENT
Fraudulent(rs) == {i \in 1..Len(rs) : rs[i].classification = "FRAUDULENT"}

\* two leads with a five-digit phone and the same email, then a lead with
\* that phone and email and no name
C14_Batch == <<LeadShortPhone, LeadShortPhone, LeadNoName>>

C14_Reordered == <<LeadNoName, LeadShortPhone, LeadShortPhone>>

\* C14: there are a batch and two orderings of it, each scored from a fresh
\* tracker, whose numbers of FRAUDULENT leads differ, and whose refund tiers
\* differ with them: the orderings of C14_Batch that score the nameless lead
\* last have one FRAUDULENT lead and a FULL REFUND, the others have none and
\* NO REFUND.
C14_OrderChangesFraudulentCount ==
  (pc = "idle" /\ Len(results) = 3 /\ ScoredLeads \in Orderings(C14_Batch))
    => IF ScoredLeads[3] = LeadNoName
         THEN /\ Cardinality(Fraudulent(results)) = 1
              /\ refund.refund_type = "FULL REFUND"
         ELSE /\ Cardinality(Fraudulent(results)) = 0
              /\ refund.refund_type = "NO REFUND"

\* C14_Batch was scored and refunded in full, and C14_Reordered scored by a
\* fresh scorer has no FRAUDULENT lead and no refund
C14_Witness ==
  /\ pc = "idle"
  /\ ScoredLeads = C14_Batch
  /\ Cardinality(Fraudulent(results)) = 1
  /\ refund.raised = "none"
  /\ refund.refund_type = "FULL REFUND"
  /\ LET other == ScoreBatch(C14_Reordered)
         column == [i \in 1..Len(other) |-> other[i].is_fraudulent]
     IN  /\ Fraudulent(other) = {}
         /\ calculate_batch_refund(column).refund_type = "NO REFUND"


Classifications == {"FRAUDULENT", "SUSPICIOUS", "VALID"}

\* C15: score_lead returns a result for every lead, with any of name, email
\* and phone absent or empty, in every tracker state: its classification is
\* FRAUDULENT, SUSPICIOUS or VALID, its score is a natural number, and a
\* field that is absent or empty shows only as points and a reason.
C15_AlwaysReturnsAResult ==
  \A i \in 1..Len(calls) :
     LET lead == calls[i].lead
         r == calls[i].result
     IN  /\ r.classification \in Classifications
         /\ r.fraud_score \in Nat
         /\ r.is_fraudulent \in BOOLEAN
         /\ ~Truthy(Get(lead, "phone")) => HasReason(r, "Missing phone number")
         /\ ~Truthy(Get(lead, "email")) => HasReason(r, "Missing email address")
         /\ ~Truthy(Get(lead, "name")) => HasReason(r, "Invalid or gibberish name")

\* a lead with one key absent and another key holding the empty string was
\* scored by a scorer that had scored leads before
C15_Witness ==
  \E i \in 2..Len(calls) :
     LET lead == calls[i].lead
     IN  /\ DOMAIN lead # {"name", "email", "phone"}
         /\ \E key \in DOMAIN lead : lead[key] = <<>>
         /\ calls[i].result.classification \in Classifications


\* the refund of the batch in results has been calculated
RefundCalculated == pc = "idle" /\ refund.raised = "none"

\* C16: in the refund result of a batch, fraudulent_leads is the number of
\* leads with is_fraudulent true, which are the leads scoring 50 or more;
\* SUSPICIOUS leads count as valid; fraudulent_leads + valid_leads =
\* total_leads and 0 <= fraudulent_leads <= total_leads.
C16_FraudulentLeadsCounted ==
  RefundCalculated =>
    LET rows == 1..Len(results)
    IN  /\ refund.total_leads = Len(results)
        /\ refund.fraudulent_leads
             = Cardinality({i \in rows : results[i].is_fraudulent})
        /\ refund.fraudulent_leads
             = Cardinality({i \in rows : results[i].fraud_score >= 50})
        /\ refund.valid_leads
             = Cardinality({i \in rows :
                  results[i].classification \in {"SUSPICIOUS", "VALID"}})
        /\ refund.fraudulent_leads + refund.valid_leads = refund.total_leads
        /\ 0 <= refund.fraudulent_leads
        /\ refund.fraudulent_leads <= refund.total_leads

\* a refund for a batch with a FRAUDULENT lead and a SUSPICIOUS lead, the
\* latter among the valid leads
C16_Witness ==
  /\ RefundCalculated
  /\ refund.fraudulent_leads = 1
  /\ refund.valid_leads >= 1
  /\ \E i \in 1..Len(results) : results[i].classification = "SUSPICIOUS"


\* C17: calculate_batch_refund depends only on the is_fraudulent values of
\* the batch: the step that calculates the refund leaves seen_phones,
\* seen_emails and seen_hashes as they were, and its result is the result for
\* every permutation of the column, whatever the scorer processed before.
C17_RefundFromFlagsOnly ==
  [][(pc = "scoring" /\ pc' = "idle") =>
       /\ UNCHANGED <<seen_phones, seen_emails, seen_hashes>>
       /\ \A o \in Orderings(leads_df') : calculate_batch_refund(o) = refund'
       /\ refund' = calculate_batch_refund(
                      Column(Len(leads_df'), CountFraudulent(leads_df'), TRUE))
    ]_vars

\* the refund of a second batch, with fraudulent and other rows, by a
\* scorer whose tracker holds the leads of the first batch too
C17_Witness ==
  /\ RefundCalculated
  /\ nbatches = 2
  /\ Len(calls) > Len(results)
  /\ \E i, j \in 1..Len(leads_df) : leads_df[i] /\ ~leads_df[j]
  /\ Cardinality(seen_hashes) >= 2


\* the sum of the counts of a counter
RECURSIVE SumCounts(_)
SumCounts(d) ==
  IF DOMAIN d = {} THEN 0
  ELSE LET k == CHOOSE x \in DOMAIN d : TRUE
       IN  d[k] + SumCounts([x \in DOMAIN d \ {k} |-> d[x]])

\* the counter a field of the scored leads should have produced
CountsOf(key) ==
  [v \in {Get(calls[i].lead, key) : i \in 1..Len(calls)} |->
     Cardinality({i \in 1..Len(calls) : Get(calls[i].lead, key) = v})]

\* C18: every score_lead call adds one to the count of the lead's phone and
\* one to the count of its email and leaves its fingerprint in seen_hashes:
\* after n calls on a fresh scorer the phone counts sum to n, the email
\* counts sum to n, each value's count is the number of calls that had it,
\* and seen_hashes is the set of fingerprints of the n leads.
C18_TrackerUpdatedOncePerCall ==
  /\ SumCounts(seen_phones) = Len(calls)
  /\ SumCounts(seen_emails) = Len(calls)
  /\ seen_phones = CountsOf("phone")
  /\ seen_emails = CountsOf("email")
  /\ seen_hashes = {lead_hash(calls[i].lead) : i \in 1..Len(calls)}

\* four calls, among them a lead without phone and email, a lead scored
\* twice and a lead on which earlier checks had fired
C18_Witness ==
  /\ Len(calls) = 4
  /\ \E i \in 1..4 : calls[i].lead = LeadEmpty
  /\ \E i \in 1..4 : calls[i].duplicate /\ calls[i].result.fraud_score >= 25
  /\ Cardinality(seen_hashes) < 4
  /\ SumCounts(seen_phones) = 4


\* a reason other than 'Missing critical fields' whose text contains 'Missing'
MissingReasonCollected(r) ==
  \E k \in 1..Len(r.reasons) :
     /\ r.reasons[k] # "Missing critical fields"
     /\ Contains(ReasonText[r.reasons[k]], <<"M", "i", "s", "s", "i", "n", "g">>)

\* C19: 'Missing critical fields' is awarded exactly when name, email or
\* phone is missing and no reason collected before it contains 'Missing';
\* 'Invalid or gibberish name' is awarded, independently, exactly when the
\* name is missing or gibberish.
C19_QualityAwards ==
  \A i \in 1..Len(calls) :
     LET f == Fields(calls[i].lead)
         r == calls[i].result
     IN  /\ HasReason(r, "Missing critical fields")
              <=> /\ \E k \in 1..3 : ~Truthy(f[k])
                  /\ ~MissingReasonCollected(r)
         /\ HasReason(r, "Invalid or gibberish name")
              <=> (~Truthy(f[1]) \/ is_gibberish_name(f[1]))

\* both awards on one lead, and a lead with fields missing that got the
\* name award without 'Missing critical fields'
C19_Witness ==
  \E i, j \in 1..Len(calls) :
     /\ HasReason(calls[i].result, "Missing critical fields")
     /\ HasReason(calls[i].result, "Invalid or gibberish name")
     /\ \E k \in 2..3 : ~Truthy(Fields(calls[j].lead)[k])
     /\ ~HasReason(calls[j].result, "Missing critical fields")
     /\ HasReason(calls[j].result, "Invalid or gibberish name")


\* the points awarded with a list of reasons: 15 with 'Exact duplicate
\* detected', 10 with every other reason
RECURSIVE PointsOf(_)
PointsOf(reasons) ==
  IF reasons = <<>> THEN 0
  ELSE (IF Head(reasons) = "Exact duplicate detected" THEN 15 ELSE 10)
         + PointsOf(Tail(reasons))

\* C20: the classification is a function of fraud_score alone, and
\* fraud_score is the sum of the raw point awards, never below
\* breakdown.contact + breakdown.duplicate + breakdown.quality.
C20_ClassifiedByRawTotal ==
  \A i \in 1..Len(calls) :
     LET r == calls[i].result
     IN  /\ r.fraud_score = PointsOf(r.reasons)
         /\ r.fraud_score >= BreakdownSum(r)
         /\ \A j \in 1..Len(calls) :
              calls[j].result.fraud_score = r.fraud_score
                => /\ calls[j].result.classification = r.classification
                   /\ calls[j].result.is_fraudulent = r.is_fraudulent

\* two leads with the same fraud_score and classification, the score of one
\* above the sum of its breakdown, the score of the other equal to it
C20_Witness ==
  \E i, j \in 1..Len(calls) :
     /\ calls[i].result.fraud_score = calls[j].result.fraud_score
     /\ calls[i].result.fraud_score > BreakdownSum(calls[i].result)
     /\ calls[j].result.fraud_score = BreakdownSum(calls[j].result)
     /\ calls[i].result.classification = calls[j].result.classification


ReasonsOf(r) == {r.reasons[k] : k \in 1..Len(r.reasons)}

PhoneReasons == {"Missing phone number", "Invalid phone format"}

EmailReasons == {"Missing email address", "Invalid email format",
                 "Disposable email domain"}

\* C21: every score result has at most one of 'Missing phone number' and
\* 'Invalid phone format' and at most one of 'Missing email address',
\* 'Invalid email format' and 'Disposable email domain'; the repeat reasons
\* are there exactly when the tracker reports the repeat, whichever of these
\* reasons were given.
C21_OneReasonPerContactField ==
  \A i \in 1..Len(calls) :
     LET r == calls[i].result
     IN  /\ Cardinality(ReasonsOf(r) \cap PhoneReasons) <= 1
         /\ Cardinality(ReasonsOf(r) \cap EmailReasons) <= 1
         /\ HasReason(r, "Phone number repeated 3+ times") <=> calls[i].repeated_phone
         /\ HasReason(r, "Email repeated 3+ times") <=> calls[i].repeated_email

\* a lead with one phone reason and one email reason whose phone and email
\* are also flagged as repeated
C21_Witness ==
  \E i \in 1..Len(calls) :
     /\ ReasonsOf(calls[i].result) \cap PhoneReasons = {"Invalid phone format"}
     /\ ReasonsOf(calls[i].result) \cap EmailReasons = {"Disposable email domain"}
     /\ {"Phone number repeated 3+ times", "Email repeated 3+ times"}
          \subseteq ReasonsOf(calls[i].result)

\* the place of a reason in the order of detection
DetectionRank(reason) ==
  CASE reason \in PhoneReasons -> 1
    [] reason \in EmailReasons -> 2
    [] reason = "Phone number repeated 3+ times" -> 3
    [] reason = "Email repeated 3+ times" -> 4
    [] reason = "Exact duplicate detected" -> 5
    [] reason = "Invalid or gibberish name" -> 6
    [] reason = "Missing critical fields" -> 7

\* C22: the reasons of every score result are in detection order: phone
\* reason, email reason, 'Phone number repeated 3+ times', 'Email repeated
\* 3+ times', 'Exact duplicate detected', 'Invalid or gibberish name',
\* 'Missing critical fields'; no reason occurs twice.
C22_ReasonsInDetectionOrder ==
  \A i \in 1..Len(calls) :
     LET reasons == calls[i].result.reasons
     IN  /\ \A k \in 1..Len(reasons) : reasons[k] \in DOMAIN ReasonText
         /\ \A k \in 1..(Len(reasons) - 1) :
              DetectionRank(reasons[k]) < DetectionRank(reasons[k + 1])

\* a result with six reasons, from the phone reason to the name reason
C22_Witness ==
  \E i \in 1..Len(calls) :
     calls[i].result.reasons =
       <<"Missing phone number", "Missing email address",
         "Phone number repeated 3+ times", "Email repeated 3+ times",
         "Exact duplicate detected", "Invalid or gibberish name">>


\* the points the fraud indicators give to the reasons of one result
RECURSIVE IndicatorPoints(_)
IndicatorPoints(reasons) ==
  IF reasons = <<>> THEN 0
  ELSE points_per_lead(Head(reasons)) + IndicatorPoints(Tail(reasons))

\* C26: the fraud_score of every result is the sum over its reasons of the
\* points the indicators' points_map gives them, 15 for 'Exact duplicate
\* detected' and 10 for every other reason, and so a multiple of 5.
C26_ScoreIsIndicatorPoints ==
  \A i \in 1..Len(calls) :
     LET r == calls[i].result
     IN  /\ r.fraud_score = IndicatorPoints(r.reasons)
         /\ r.fraud_score % 5 = 0
         /\ r.breakdown.duplicate \in {0, 15}

\* a duplicate at 15 + 10 k points: a multiple of 5 and not of 10
C26_Witness ==
  \E i \in 1..Len(calls) :
     /\ HasReason(calls[i].result, "Exact duplicate detected")
     /\ calls[i].result.fraud_score % 10 = 5
     /\ Len(calls[i].result.reasons) >= 3

\* C27: a missing phone or email is counted under the empty string: a lead
\* without phone that comes after two or more leads without phone gets
\* 'Missing phone number' and 'Phone number repeated 3+ times', likewise for
\* the email, and three leads without phone, email and name score 30, 45, 65.
C27_MissingValuesRepeat ==
  /\ \A i \in 1..Len(calls) :
        LET r == calls[i].result
            noPhone == {j \in 1..i : ~Truthy(Get(calls[j].lead, "phone"))}
            noEmail == {j \in 1..i : ~Truthy(Get(calls[j].lead, "email"))}
        IN  /\ (i \in noPhone /\ Cardinality(noPhone) >= 3) =>
                 /\ HasReason(r, "Missing phone number")
                 /\ HasReason(r, "Phone number repeated 3+ times")
                 /\ seen_phones[<<>>] >= Cardinality(noPhone)
            /\ (i \in noEmail /\ Cardinality(noEmail) >= 3) =>
                 /\ HasReason(r, "Missing email address")
                 /\ HasReason(r, "Email repeated 3+ times")
                 /\ seen_emails[<<>>] >= Cardinality(noEmail)
  /\ (Len(calls) >= 3 /\ \A i \in 1..3 : AllMissing(calls[i].lead)) =>
        /\ calls[1].result.fraud_score = 30
        /\ calls[2].result.fraud_score = 45
        /\ calls[3].result.fraud_score = 65

\* four leads without phone, email and name: 30, 45, 65 and 65 again
C27_Witness ==
  /\ Len(calls) = 4
  /\ \A i \in 1..4 : AllMissing(calls[i].lead)
  /\ calls[3].result.fraud_score = 65
  /\ calls[4].result.fraud_score = 65
  /\ seen_phones[<<>>] = 4

\* C28: 'Missing critical fields' is awarded exactly when the name is
\* missing and phone and email are both present; then, and only then,
\* fraud_score is above breakdown.contact + breakdown.duplicate +
\* breakdown.quality, by exactly 10; otherwise the two are equal.
C28_ExcessOnlyWithMissingCriticalFields ==
  \A i \in 1..Len(calls) :
     LET f == Fields(calls[i].lead)
         r == calls[i].result
         nameOnly == ~Truthy(f[1]) /\ Truthy(f[2]) /\ Truthy(f[3])
     IN  /\ HasReason(r, "Missing critical fields") <=> nameOnly
         /\ nameOnly => r.fraud_score = BreakdownSum(r) + 10
         /\ ~nameOnly => r.fraud_score = BreakdownSum(r)

\* a nameless lead with phone and email, 10 above its breakdown, scored
\* after a lead without any field, whose score is its breakdown
C28_Witness ==
  \E i, j \in 1..Len(calls) :
     /\ i < j
     /\ AllMissing(calls[i].lead)
     /\ calls[i].result.fraud_score = BreakdownSum(calls[i].result)
     /\ HasReason(calls[j].result, "Missing critical fields")
     /\ calls[j].result.fraud_score = BreakdownSum(calls[j].result) + 10

\* p <= q for two percentages
PctLeq(p, q) == p.num * q.den <= q.num * p.den

\* the refund_percentage of a batch of n leads, g of them fraudulent
RefundPercentageOf(n, g) ==
  calculate_batch_refund(Column(n, g, TRUE)).refund_percentage

\* C29: for a fixed non-empty batch size the refund_percentage does not
\* decrease when the number of fraudulent leads grows; it lies in 0..100 and
\* is 0, or at least 15 and below 25, or exactly 100.
C29_RefundPercentageMonotone ==
  refund.raised = "none" =>
    LET n == Len(leads_df)
        f == CountFraudulent(leads_df)
        p == refund.refund_percentage
    IN  /\ PctLeq(Pct(0, 1), p) /\ PctLeq(p, Pct(100, 1))
        /\ \/ p.num = 0
           \/ PctLeq(Pct(15, 1), p) /\ ~PctLeq(Pct(25, 1), p)
           \/ p.num = 100 * p.den
        /\ \A g \in 0..n :
             /\ g <= f => PctLeq(RefundPercentageOf(n, g), p)
             /\ g >= f => PctLeq(p, RefundPercentageOf(n, g))

\* 4 fraudulent leads of 20: refunded at 20, between the 15 of 3 fraudulent
\* leads and the 100 of 5
C29_Witness ==
  /\ refund.raised = "none"
  /\ Len(leads_df) = 20
  /\ CountFraudulent(leads_df) = 4
  /\ refund.refund_percentage.num = 20 * refund.refund_percentage.den
  /\ RefundPercentageOf(20, 3).num = 15 * RefundPercentageOf(20, 3).den
  /\ RefundPercentageOf(20, 5).num = 100 * RefundPercentageOf(20, 5).den


\* ceil(n / 500)
ChunksOf(n) == (n + 499) \div 500

\* C23: create_leads inserts every lead of its input once, in input order,
\* in consecutive chunks of at most 500 leads, ceil(n / 500) inserts and
\* none for an empty list, and returns the inserted records in that order.
C23_CreateLeadsInChunks ==
  LET n == Len(save.leads_data)
  IN  /\ \A k \in 1..Len(db.lead_inserts) :
            db.lead_inserts[k] \in 1..500
      /\ \A k \in 1..(Len(db.lead_inserts) - 1) : db.lead_inserts[k] = 500
      /\ db.leads = SubSeq(save.leads_data, 1, Len(db.leads))
      /\ save.status = "returned" =>
            /\ db.leads = save.leads_data
            /\ save.all_results = save.leads_data
            /\ Len(db.lead_inserts) = ChunksOf(n)
            /\ n = 0 => db.lead_inserts = <<>>

\* 1001 leads went in as 500, 500 and 1
C23_Witness ==
  /\ save.status = "returned"
  /\ Len(save.leads_data) = 1001
  /\ db.lead_inserts = <<500, 500, 1>>
  /\ save.all_results[501] = 501


\* process_batch has returned or raised
ProcessBatchOver == pc = "idle" /\ nbatches > 0 /\ batch_data # NotCalled

ScoringKeys == {"lead_count", "fraudulent_count", "valid_count",
                "fraud_percentage", "refund_status", "refund_percentage"}

\* C24: a failure of a database step neither fails process_batch nor changes
\* its scoring output: process_batch raises only what calculate_batch_refund
\* raised, and the lead_count, fraudulent_count, valid_count,
\* fraud_percentage, refund_status and refund_percentage it returns are the
\* ones it returns without a database.
C24_SaveFailureKeepsScoringOutput ==
  ProcessBatchOver =>
    /\ batch_data.raised = refund.raised
    /\ batch_data.raised = "none" =>
         \A key \in ScoringKeys :
            batch_data[key] = BatchData(results, calculate_batch_refund(leads_df))[key]

\* process_batch returned after create_leads had raised: a batch record
\* without lead records
C24_Witness ==
  /\ ProcessBatchOver
  /\ self_db
  /\ save.status = "raised"
  /\ batch_data.raised = "none"
  /\ batch_data.fraudulent_count = 0
  /\ Len(db.batches) > 0
  /\ \A k \in 1..Len(db.leads) : db.leads[k].batch_id # Len(db.batches)

\* C25: in the result of process_batch, batch_id is present only if the
\* whole save completed: with batch_id there is vendor_id, and the lead
\* records and the fraud indicators of the batch are in the database.
C25_BatchIdOnlyAfterWholeSave ==
  (ProcessBatchOver /\ "batch_id" \in DOMAIN batch_data) =>
    /\ "vendor_id" \in DOMAIN batch_data
    /\ Cardinality({k \in 1..Len(db.leads) :
                      db.leads[k].batch_id = batch_data.batch_id})
         = batch_data.lead_count
    /\ generate_fraud_indicators(results) # {} =>
         \E k \in 1..Len(db.indicators) :
            db.indicators[k].batch_id = batch_data.batch_id


\* C30: get_or_create_vendor keeps at most one vendor record for a
\* vendor_name, also when callers with the same new name run it at the
\* same time, their selects and inserts interleaved.
C30_OneVendorPerName ==
  \A name \in VendorNames : Len(select_vendors(db.vendors, name)) <= 1

====
